---- MODULE Spec2Model ----
(***************************************************************************)
(* A model of simple_neat (src/src/lib.rs): agents whose topology is       *)
(* mutated by Agent::reproduce and evaluated by Agent::calculate.          *)
(*                                                                         *)
(* Layers and indices are the source's (0-based); TLA+ sequences are       *)
(* 1-based, so data_lists[l][i] of the source is data_lists[l+1][i+1].     *)
(* f32 values are modelled by integers; an addition or multiplication is   *)
(* exact, or rounded to a few significant bits where the rounding of f32   *)
(* arithmetic is followed (SpecRound).  A Rust panic is an outcome with    *)
(* ok = FALSE; a panic unwinds the driver, which drops its agents, and the *)
(* program has stopped.                                                    *)
(***************************************************************************)
EXTENDS Integers, Sequences, FiniteSets, TLC

VARIABLES agents, pc, last, cap

vars == <<agents, pc, last, cap>>

----------------------------------------------------------------------------
(* Bounds of the model *)

MaxAgents == 2
MaxIn == 1
MaxOut == 1

(* hidden nodes and connections of an agent when only reproduce runs *)
MaxNodes == 2
MaxConns == 2

(* hidden nodes and connections of an agent when calculate runs as well *)
EvalNodes == 1
EvalConns == 2

(* agents, hidden nodes and connections when a third agent is present *)
PopAgents == 3
PopNodes == 1
PopConns == 1

(* max_weight-bounded weights drawn by gen_range(-max_weight..max_weight) *)
Weights == {-1, 1}

(* values of an input vector's entries *)
InVals == {1}

(* activation lists handed to create_agents: the example's, and a list with
   an entry for layer 0 only *)
ActLists == { <<"TANH", "TANH">>, <<"ID">> }

(* the example's activation list alone *)
ExampleActLists == { <<"TANH", "TANH">> }

(* hidden nodes and connections of an agent when the values of a sweep are
   followed *)
SweepNodes == 1
SweepConns == 3

(* the weight, the input value and the activation list under which the values
   of a sweep are followed: the identity on the input layer *)
SweepWeights == {2}

SweepInVals == {3}

SweepActLists == { <<"ID", "TANH">> }

(* hidden nodes and connections of an agent, significant bits of a value and
   weights when the rounding of f32 arithmetic is followed *)
RoundNodes == 1
RoundConns == 3
RoundBits == 2

RoundWeights == {1, 4}

----------------------------------------------------------------------------
(* Values *)

(* pub const TANH: odd, monotone, saturating at +-1 *)
TANH(x) == IF x > 0 THEN 1 ELSE IF x < 0 THEN -1 ELSE 0

ApplyAct(f, x) == IF f = "TANH" THEN TANH(x) ELSE x

Zeros(n) == [k \in 1..n |-> 0]

Abs(x) == IF x < 0 THEN 0 - x ELSE x

(* the unit in the last place of a magnitude m held in bits significant bits *)
RECURSIVE Ulp(_, _, _)
Ulp(m, bits, u) == IF m < (2 ^ bits) * u THEN u ELSE Ulp(m, bits, 2 * u)

(* an exact result rounded to the nearest value with bits significant bits,
   ties to the even significand, as f32 arithmetic rounds to 24 bits;
   bits = 0 stands for results that are held exactly *)
RoundTo(x, bits) ==
    IF bits = 0 THEN x
    ELSE LET m == Abs(x)
             u == Ulp(m, bits, 1)
             q == m \div u
             r == m % u
             n == IF 2 * r > u \/ (2 * r = u /\ q % 2 = 1) THEN q + 1 ELSE q
         IN  IF x < 0 THEN 0 - n * u ELSE n * u

(* f32 addition and multiplication *)
FAdd(x, y) == RoundTo(x + y, cap.precision)

FMul(x, y) == RoundTo(x * y, cap.precision)

(* rng.gen_range(0..n): the values it can return; empty means it panics *)
GenRange(n) == 0..(n - 1)

Connection(sl, el, si, ei, w) ==
    [start_layer |-> sl, end_layer |-> el, start_idx |-> si, end_idx |-> ei, weight |-> w]

(* NewAgent with the output buffer sized by the input count *)
NewAgent_OutputsSizedByInputs(inputs, outputs, acts) ==
    [inputs |-> inputs, nodes |-> 0, connections |-> 0, outputs |-> outputs,
     data_lists |-> <<Zeros(inputs), <<>>, Zeros(inputs)>>,
     connection_list |-> <<>>,
     activation_funcs |-> acts]

NewAgent(inputs, outputs, acts) ==
    [inputs |-> inputs, nodes |-> 0, connections |-> 0, outputs |-> outputs,
     data_lists |-> <<Zeros(inputs), <<>>, Zeros(outputs)>>,
     connection_list |-> <<>>,
     activation_funcs |-> acts]

----------------------------------------------------------------------------
(* create_agents *)

CreateAgents(amount, inputs, outputs, acts) ==
    IF amount > 0 /\ (inputs < 0 \/ outputs < 0)
    THEN [ok |-> FALSE, agents |-> <<>>]
    ELSE [ok |-> TRUE,
          agents |-> [k \in 1..(IF amount > 0 THEN amount ELSE 0) |->
                        NewAgent(inputs, outputs, acts)]]

----------------------------------------------------------------------------
(* sort_connections: a stable sort by (start_layer, end_layer) *)

(* ConnLeq with the start layers compared in descending order *)
ConnLeq_Descending(a, b) ==
    IF a.start_layer = b.start_layer
    THEN a.end_layer <= b.end_layer
    ELSE a.start_layer > b.start_layer

ConnLeq(a, b) ==
    IF a.start_layer = b.start_layer
    THEN a.end_layer <= b.end_layer
    ELSE a.start_layer < b.start_layer

RECURSIVE InsertConn(_, _)
InsertConn(sorted, c) ==
    IF sorted = <<>> THEN <<c>>
    ELSE IF ConnLeq(sorted[Len(sorted)], c) THEN Append(sorted, c)
    ELSE Append(InsertConn(SubSeq(sorted, 1, Len(sorted) - 1), c), sorted[Len(sorted)])

RECURSIVE SortFrom(_, _, _)
SortFrom(list, k, acc) ==
    IF k > Len(list) THEN acc ELSE SortFrom(list, k + 1, InsertConn(acc, list[k]))

(* sort_connections as sort_unstable_by: equal keys come out reversed *)
sort_connections_Unstable(list) ==
    SortFrom([k \in 1..Len(list) |-> list[Len(list) + 1 - k]], 1, <<>>)

sort_connections(list) == SortFrom(list, 1, <<>>)

----------------------------------------------------------------------------
(* calculate *)

InBounds(seq, i) == (i + 1) \in 1..Len(seq)

(* Accumulate with the destination assigned rather than added to *)
Accumulate_Overwrite(d, acts, c) ==
    IF /\ InBounds(acts, c.start_layer)
       /\ InBounds(d, c.start_layer)
       /\ InBounds(d, c.end_layer)
       /\ InBounds(d[c.start_layer + 1], c.start_idx)
       /\ InBounds(d[c.end_layer + 1], c.end_idx)
    THEN [ok |-> TRUE,
          d  |-> [d EXCEPT ![c.end_layer + 1][c.end_idx + 1] =
                     FMul(ApplyAct(acts[c.start_layer + 1],
                                   d[c.start_layer + 1][c.start_idx + 1]),
                          c.weight)]]
    ELSE [ok |-> FALSE, d |-> d]

(* one iteration of the accumulation loop; ok = FALSE is an index panic *)
Accumulate(d, acts, c) ==
    IF /\ InBounds(acts, c.start_layer)
       /\ InBounds(d, c.start_layer)
       /\ InBounds(d, c.end_layer)
       /\ InBounds(d[c.start_layer + 1], c.start_idx)
       /\ InBounds(d[c.end_layer + 1], c.end_idx)
    THEN [ok |-> TRUE,
          d  |-> [d EXCEPT ![c.end_layer + 1][c.end_idx + 1] =
                     FAdd(@, FMul(ApplyAct(acts[c.start_layer + 1],
                                           d[c.start_layer + 1][c.start_idx + 1]),
                                  c.weight))]]
    ELSE [ok |-> FALSE, d |-> d]

RECURSIVE Sweep(_, _, _, _)
Sweep(d, acts, list, k) ==
    IF k > Len(list) THEN [ok |-> TRUE, d |-> d]
    ELSE LET r == Accumulate(d, acts, list[k])
         IN  IF r.ok THEN Sweep(r.d, acts, list, k + 1) ELSE r

(* ResetBuffers with the hidden buffer left as the last call wrote it *)
ResetBuffers_KeepHidden(a, input) ==
    <<input, a.data_lists[2], Zeros(Len(a.data_lists[3]))>>

ResetBuffers(a, input) ==
    <<input, Zeros(a.nodes), Zeros(Len(a.data_lists[3]))>>

calculate(a, input) ==
    IF Len(input) # a.inputs
    THEN [result |-> "shape_mismatch", ag |-> a, out |-> <<>>]
    ELSE LET sorted == sort_connections(a.connection_list)
             r      == Sweep(ResetBuffers(a, input), a.activation_funcs, sorted, 1)
             a2     == [a EXCEPT !.data_lists = r.d, !.connection_list = sorted]
         IN  IF r.ok
             THEN [result |-> "ok", ag |-> a2, out |-> r.d[3]]
             ELSE [result |-> "index_panic", ag |-> a2, out |-> <<>>]

----------------------------------------------------------------------------
(* reproduce: the random draws *)

(* Rates and the draws of gen_range(0.0..1.0) in halves: 0, 1/2, (1) *)
Rates == {0, 1, 2}

GateDraws == {0, 1}

RateNames == {"new_node_chance", "new_connection_chance", "delete_node_chance",
              "delete_connection_chance", "change_weight_chance",
              "change_connection_chance"}

RateConfigs == {[g \in RateNames |-> r] : r \in Rates}

(* Gate with the comparison rng.gen_range(0.0..1.0) <= rate *)
Gate_Inclusive(rate) == {d <= rate : d \in GateDraws}

(* rng.gen_range(0.0..1.0) < rate, over every draw *)
Gate(rate) == {d < rate : d \in GateDraws}

Ok(a) == [ok |-> TRUE, ag |-> a]

Panicked(a) == [ok |-> FALSE, ag |-> a]

(* an edit applied to every outcome so far; a panic ends the call *)
Then(outcomes, Edit(_)) ==
    UNION {IF o.ok THEN Edit(o.ag) ELSE {o} : o \in outcomes}

Pop(s) == IF s = <<>> THEN s ELSE SubSeq(s, 1, Len(s) - 1)

RemoveAt(s, i) == SubSeq(s, 1, i) \o SubSeq(s, i + 2, Len(s))

----------------------------------------------------------------------------
(* reproduce: delete node and the repair of the connections *)

(* RepairStart without the fallback to the input layer *)
RepairStart_NoFallback(c, idx, nodes, inputs) ==
    IF c.start_layer = 1 /\ c.start_idx >= idx
    THEN IF c.start_idx = idx
         THEN {[ok |-> TRUE, c |-> [c EXCEPT !.start_idx = r]] : r \in GenRange(nodes)}
                 \cup (IF nodes > 0 THEN {} ELSE {[ok |-> TRUE, c |-> c]})
         ELSE {[ok |-> TRUE, c |-> [c EXCEPT !.start_idx = @ - 1]]}
    ELSE {[ok |-> TRUE, c |-> c]}

RepairStart(c, idx, nodes, inputs) ==
    IF c.start_layer = 1 /\ c.start_idx >= idx
    THEN IF c.start_idx = idx
         THEN IF nodes > 0
              THEN {[ok |-> TRUE, c |-> [c EXCEPT !.start_idx = r]] : r \in GenRange(nodes)}
              ELSE IF GenRange(inputs) = {}
                   THEN {[ok |-> FALSE, c |-> [c EXCEPT !.start_layer = 0]]}
                   ELSE {[ok |-> TRUE, c |-> [c EXCEPT !.start_layer = 0, !.start_idx = r]] :
                            r \in GenRange(inputs)}
         ELSE {[ok |-> TRUE, c |-> [c EXCEPT !.start_idx = @ - 1]]}
    ELSE {[ok |-> TRUE, c |-> c]}

(* RepairEnd without the compaction of the indices above idx *)
RepairEnd_NoCompaction(c, idx, nodes, outputs) ==
    IF c.end_layer = 1 /\ c.end_idx = idx
    THEN IF nodes > 0
         THEN {[ok |-> TRUE, c |-> [c EXCEPT !.end_idx = r]] : r \in GenRange(nodes)}
         ELSE IF GenRange(outputs) = {}
              THEN {[ok |-> FALSE, c |-> [c EXCEPT !.end_layer = 2]]}
              ELSE {[ok |-> TRUE, c |-> [c EXCEPT !.end_layer = 2, !.end_idx = r]] :
                       r \in GenRange(outputs)}
    ELSE {[ok |-> TRUE, c |-> c]}

RepairEnd(c, idx, nodes, outputs) ==
    IF c.end_layer = 1 /\ c.end_idx >= idx
    THEN IF c.end_idx = idx
         THEN IF nodes > 0
              THEN {[ok |-> TRUE, c |-> [c EXCEPT !.end_idx = r]] : r \in GenRange(nodes)}
              ELSE IF GenRange(outputs) = {}
                   THEN {[ok |-> FALSE, c |-> [c EXCEPT !.end_layer = 2]]}
                   ELSE {[ok |-> TRUE, c |-> [c EXCEPT !.end_layer = 2, !.end_idx = r]] :
                            r \in GenRange(outputs)}
         ELSE {[ok |-> TRUE, c |-> [c EXCEPT !.end_idx = @ - 1]]}
    ELSE {[ok |-> TRUE, c |-> c]}

RepairConn(c, idx, nodes, inputs, outputs) ==
    UNION {IF s.ok THEN RepairEnd(s.c, idx, nodes, outputs) ELSE {s} :
              s \in RepairStart(c, idx, nodes, inputs)}

(* the loop over connection_list.iter_mut(): the lists it can leave *)
RECURSIVE RepairAll(_, _, _, _, _, _)
RepairAll(list, k, idx, nodes, inputs, outputs) ==
    IF k > Len(list) THEN {[ok |-> TRUE, list |-> list]}
    ELSE UNION {IF r.ok
                THEN RepairAll([list EXCEPT ![k] = r.c], k + 1, idx, nodes, inputs, outputs)
                ELSE {[ok |-> FALSE, list |-> list]} :
                   r \in RepairConn(list[k], idx, nodes, inputs, outputs)}

(* DeleteNodeAt with the repair drawing against the count before the decrement *)
DeleteNodeAt_StaleCount(a, idx) ==
    {IF l.ok
     THEN Ok([a EXCEPT !.nodes = a.nodes - 1,
                       !.connection_list = l.list,
                       !.data_lists[2] = Pop(@)])
     ELSE Panicked(a) :
        l \in RepairAll(a.connection_list, 1, idx, a.nodes, a.inputs, a.outputs)}

DeleteNodeAt(a, idx) ==
    {IF l.ok
     THEN Ok([a EXCEPT !.nodes = a.nodes - 1,
                       !.connection_list = l.list,
                       !.data_lists[2] = Pop(@)])
     ELSE Panicked(a) :
        l \in RepairAll(a.connection_list, 1, idx, a.nodes - 1, a.inputs, a.outputs)}

DeleteNode(a, rate) ==
    UNION {IF fire /\ a.nodes > 0
           THEN UNION {DeleteNodeAt(a, idx) : idx \in GenRange(a.nodes)}
           ELSE {Ok(a)} : fire \in Gate(rate)}

----------------------------------------------------------------------------
(* reproduce: add node, delete connection *)

AddNode(a, rate) ==
    {IF fire /\ a.nodes < cap.nodes
     THEN Ok([a EXCEPT !.nodes = @ + 1, !.data_lists[2] = Append(@, 0)])
     ELSE Ok(a) : fire \in Gate(rate)}

(* DeleteConnectionAt without the decrement of the counter *)
DeleteConnectionAt_NoDecrement(a, idx) ==
    IF InBounds(a.connection_list, idx)
    THEN Ok([a EXCEPT !.connection_list = RemoveAt(@, idx)])
    ELSE Panicked(a)

DeleteConnectionAt(a, idx) ==
    IF InBounds(a.connection_list, idx)
    THEN Ok([a EXCEPT !.connections = @ - 1,
                      !.connection_list = RemoveAt(@, idx)])
    ELSE Panicked(a)

DeleteConnection(a, rate) ==
    UNION {IF fire /\ a.connections > 0
           THEN {DeleteConnectionAt(a, idx) : idx \in GenRange(a.connections)}
           ELSE {Ok(a)} : fire \in Gate(rate)}

----------------------------------------------------------------------------
(* reproduce: add connection, rewire connection, reweight connection *)

(* StartLayers drawn over all three layers *)
StartLayers_AnyLayer(a) == IF a.nodes > 0 THEN {0, 1, 2} ELSE {0}

(* the layers drawn for a new or rewired connection *)
StartLayers(a) == IF a.nodes > 0 THEN {0, 1} ELSE {0}

(* EndLayers drawn over all three layers *)
EndLayers_AnyLayer(a) == IF a.nodes > 0 THEN {0, 1, 2} ELSE {2}

EndLayers(a) == IF a.nodes > 0 THEN {1, 2} ELSE {2}

StartIdxRange(a, layer) == IF layer = 0 THEN GenRange(a.inputs) ELSE GenRange(a.nodes)

EndIdxRange(a, layer) == IF layer = 1 THEN GenRange(a.nodes) ELSE GenRange(a.outputs)

(* the endpoints drawn in the order start_layer, start_idx, end_layer, end_idx;
   an empty range panics *)
DrawEndpoints(a) ==
    UNION {IF StartIdxRange(a, sl) = {}
           THEN {[ok |-> FALSE, sl |-> sl, si |-> 0, el |-> 0, ei |-> 0]}
           ELSE UNION {IF EndIdxRange(a, el) = {}
                       THEN {[ok |-> FALSE, sl |-> sl, si |-> 0, el |-> el, ei |-> 0]}
                       ELSE {[ok |-> TRUE, sl |-> sl, si |-> si, el |-> el, ei |-> ei] :
                                si \in StartIdxRange(a, sl), ei \in EndIdxRange(a, el)} :
                          el \in EndLayers(a)} :
              sl \in StartLayers(a)}

AddConnection(a, rate) ==
    UNION {IF fire /\ a.connections < cap.connections
           THEN UNION {IF e.ok
                       THEN {Ok([a EXCEPT !.connections = @ + 1,
                                          !.connection_list =
                                              Append(@, Connection(e.sl, e.el, e.si, e.ei, w))]) :
                                w \in cap.weights}
                       ELSE {Panicked(a)} :
                          e \in DrawEndpoints(a)}
           ELSE {Ok(a)} : fire \in Gate(rate)}

RewireAt(a, idx) ==
    IF ~InBounds(a.connection_list, idx) THEN {Panicked(a)}
    ELSE {IF e.ok
          THEN Ok([a EXCEPT !.connection_list[idx + 1] =
                       [@ EXCEPT !.start_layer = e.sl, !.end_layer = e.el,
                                 !.start_idx = e.si, !.end_idx = e.ei]])
          ELSE Panicked(a) :
             e \in DrawEndpoints(a)}

ChangeConnection(a, rate) ==
    UNION {IF fire /\ a.connections > 0
           THEN UNION {RewireAt(a, idx) : idx \in GenRange(a.connections)}
           ELSE {Ok(a)} : fire \in Gate(rate)}

ReweightAt(a, idx) ==
    IF ~InBounds(a.connection_list, idx) THEN {Panicked(a)}
    ELSE {Ok([a EXCEPT !.connection_list[idx + 1].weight = w]) : w \in cap.weights}

ChangeWeight(a, rate) ==
    UNION {IF fire /\ a.connections > 0
           THEN UNION {ReweightAt(a, idx) : idx \in GenRange(a.connections)}
           ELSE {Ok(a)} : fire \in Gate(rate)}

----------------------------------------------------------------------------
(* reproduce: the clone and the six edits in order *)

CloneAgent(a) ==
    [inputs |-> a.inputs, nodes |-> a.nodes, connections |-> a.connections,
     outputs |-> a.outputs, data_lists |-> a.data_lists,
     connection_list |-> a.connection_list,
     activation_funcs |-> a.activation_funcs]

(* reproduce with each addition made before the deletion of the same kind *)
reproduce_AddsBeforeDeletes(a, rates) ==
    LET s0 == {Ok(CloneAgent(a))}
        s1 == Then(s0, LAMBDA x : AddNode(x, rates.new_node_chance))
        s2 == Then(s1, LAMBDA x : DeleteNode(x, rates.delete_node_chance))
        s3 == Then(s2, LAMBDA x : AddConnection(x, rates.new_connection_chance))
        s4 == Then(s3, LAMBDA x : DeleteConnection(x, rates.delete_connection_chance))
        s5 == Then(s4, LAMBDA x : ChangeConnection(x, rates.change_connection_chance))
        s6 == Then(s5, LAMBDA x : ChangeWeight(x, rates.change_weight_chance))
    IN  {IF o.ok THEN o ELSE Panicked(a) : o \in s6}

reproduce(a, rates) ==
    LET s0 == {Ok(CloneAgent(a))}
        s1 == Then(s0, LAMBDA x : DeleteNode(x, rates.delete_node_chance))
        s2 == Then(s1, LAMBDA x : AddNode(x, rates.new_node_chance))
        s3 == Then(s2, LAMBDA x : DeleteConnection(x, rates.delete_connection_chance))
        s4 == Then(s3, LAMBDA x : AddConnection(x, rates.new_connection_chance))
        s5 == Then(s4, LAMBDA x : ChangeConnection(x, rates.change_connection_chance))
        s6 == Then(s5, LAMBDA x : ChangeWeight(x, rates.change_weight_chance))
    IN  {IF o.ok THEN o ELSE Panicked(a) : o \in s6}

----------------------------------------------------------------------------
(* The program: a driver that creates a population, evaluates and reproduces
   agents and keeps one agent of the population (tests::example_use) *)

(* PushChild with the edits applied to the parent itself *)
PushChild_InPlace(pop, i, child) == Append([pop EXCEPT ![i] = child], child)

(* agents.push(parent.reproduce(..)): reproduce takes &self *)
PushChild(pop, i, child) == Append(pop, child)

(* StoreCalculated with one set of value buffers shared by all agents *)
StoreCalculated_SharedBuffers(pop, i, ag) ==
    [j \in 1..Len(pop) |-> IF j = i THEN ag ELSE [pop[j] EXCEPT !.data_lists = ag.data_lists]]

(* agent.calculate(..) on agents[i]: calculate takes &mut self *)
StoreCalculated(pop, i, ag) == [pop EXCEPT ![i] = ag]

NoCall == [op |-> "none", result |-> "ok", agent |-> 0,
           amount |-> 0, inputs |-> 0, outputs |-> 0, inlen |-> 0]

Init ==
    /\ agents = <<>>
    /\ pc = "start"
    /\ last = NoCall
    /\ cap = [agents |-> MaxAgents, nodes |-> EvalNodes, connections |-> EvalConns,
              act_lists |-> ActLists, weights |-> Weights, in_vals |-> InVals,
              precision |-> 0]

InitMutate ==
    /\ agents = <<>>
    /\ pc = "start"
    /\ last = NoCall
    /\ cap = [agents |-> MaxAgents, nodes |-> MaxNodes, connections |-> MaxConns,
              act_lists |-> ExampleActLists, weights |-> Weights, in_vals |-> InVals,
              precision |-> 0]

InitPop ==
    /\ agents = <<>>
    /\ pc = "start"
    /\ last = NoCall
    /\ cap = [agents |-> PopAgents, nodes |-> PopNodes, connections |-> PopConns,
              act_lists |-> ExampleActLists, weights |-> Weights, in_vals |-> InVals,
              precision |-> 0]

InitSweep ==
    /\ agents = <<>>
    /\ pc = "start"
    /\ last = NoCall
    /\ cap = [agents |-> MaxAgents, nodes |-> SweepNodes, connections |-> SweepConns,
              act_lists |-> SweepActLists, weights |-> SweepWeights,
              in_vals |-> SweepInVals, precision |-> 0]

(* the connections reproduce can give an agent of these layer sizes *)
BuiltConnections(inputs, nodes, outputs, weights) ==
    {c \in {Connection(sl, el, si, ei, w) :
               sl \in {0, 1}, el \in {1, 2},
               si \in GenRange(inputs + nodes), ei \in GenRange(nodes + outputs),
               w \in weights} :
        /\ c.start_idx < (IF c.start_layer = 0 THEN inputs ELSE nodes)
        /\ c.end_idx < (IF c.end_layer = 1 THEN nodes ELSE outputs)}

(* an agent with its counts, buffers and list as reproduce leaves them *)
BuiltAgent(inputs, nodes, outputs, acts, list) ==
    [NewAgent(inputs, outputs, acts) EXCEPT
        !.nodes = nodes, !.data_lists[2] = Zeros(nodes),
        !.connections = Len(list), !.connection_list = list]

(* the agents that reproduce calls build from a created agent, not yet
   evaluated: hidden nodes and connections added one at a time *)
BuiltAgents(nodes, conns, acts, weights) ==
    UNION {{BuiltAgent(inputs, nodes, outputs, acts, list) :
              list \in UNION {[1..k -> BuiltConnections(inputs, nodes, outputs, weights)] :
                                 k \in 0..conns}} :
             inputs \in 1..MaxIn, outputs \in 1..MaxOut}

(* one built agent, about to be evaluated *)
InitRound ==
    /\ \E n \in 0..RoundNodes :
          \E a \in BuiltAgents(n, RoundConns, <<"TANH", "TANH">>, RoundWeights) :
             agents = <<a>>
    /\ pc = "run"
    /\ last = NoCall
    /\ cap = [agents |-> MaxAgents, nodes |-> RoundNodes, connections |-> RoundConns,
              act_lists |-> ExampleActLists, weights |-> RoundWeights,
              in_vals |-> InVals, precision |-> RoundBits]

Create ==
    /\ pc = "start"
    /\ \E amount \in -1..cap.agents, inputs \in -1..MaxIn, outputs \in -1..MaxOut,
          acts \in cap.act_lists :
          LET r == CreateAgents(amount, inputs, outputs, acts)
          IN  /\ agents' = r.agents
              /\ pc' = IF r.ok THEN "run" ELSE "panicked"
              /\ last' = [NoCall EXCEPT !.op = "create",
                                        !.result = IF r.ok THEN "ok" ELSE "panic",
                                        !.amount = amount, !.inputs = inputs,
                                        !.outputs = outputs]
    /\ UNCHANGED cap

InputVectors == UNION {[1..n -> cap.in_vals] : n \in 0..(MaxIn + 1)}

Calculate ==
    /\ pc = "run"
    /\ \E i \in 1..Len(agents), input \in InputVectors :
          LET r == calculate(agents[i], input)
          IN  /\ agents' = IF r.result = "ok" THEN StoreCalculated(agents, i, r.ag) ELSE <<>>
              /\ pc' = IF r.result = "ok" THEN "run" ELSE "panicked"
              /\ last' = [NoCall EXCEPT !.op = "calculate", !.result = r.result,
                                        !.agent = i, !.inputs = agents[i].inputs,
                                        !.inlen = Len(input)]
    /\ UNCHANGED cap

Reproduce ==
    /\ pc = "run"
    /\ Len(agents) < cap.agents
    /\ \E i \in 1..Len(agents), rates \in RateConfigs :
          \E o \in reproduce(agents[i], rates) :
             /\ agents' = IF o.ok THEN PushChild(agents, i, o.ag) ELSE <<>>
             /\ pc' = IF o.ok THEN "run" ELSE "panicked"
             /\ last' = [NoCall EXCEPT !.op = "reproduce",
                                       !.result = IF o.ok THEN "ok" ELSE "panic",
                                       !.agent = i]
    /\ UNCHANGED cap

Select ==
    /\ pc = "run"
    /\ \E i \in 1..Len(agents) :
          /\ agents' = <<agents[i]>>
          /\ pc' = pc
          /\ last' = [NoCall EXCEPT !.op = "select"]
    /\ UNCHANGED cap

Next == Create \/ Calculate \/ Reproduce \/ Select

NextMutate == Create \/ Reproduce \/ Select

Spec == Init /\ [][Next]_vars

SpecMutate == InitMutate /\ [][NextMutate]_vars

SpecPop == InitPop /\ [][Next]_vars

SpecSweep == InitSweep /\ [][Next]_vars

SpecRound == InitRound /\ [][Calculate]_vars

----------------------------------------------------------------------------
(* Properties *)

AgentIds == 1..Len(agents)

(* the size of a layer: inputs, nodes, outputs *)
LayerSize(a, layer) ==
    IF layer = 0 THEN a.inputs ELSE IF layer = 1 THEN a.nodes ELSE a.outputs

ConnIds(a) == 1..Len(a.connection_list)

NoDangling(a) ==
    \A k \in ConnIds(a) :
       LET c == a.connection_list[k]
       IN  /\ c.start_idx >= 0 /\ c.start_idx < LayerSize(a, c.start_layer)
           /\ c.end_idx >= 0 /\ c.end_idx < LayerSize(a, c.end_layer)

(* the step just taken was a reproduce call that returned a child *)
Reproduced == last.op = "reproduce" /\ last.result = "ok"

Parent == agents[last.agent]

Child == agents[Len(agents)]

(* C1: every connection of every agent created with at least one input and one
   output, after any sequence of reproduce calls, has start_idx and end_idx
   within the current size of its start and end layer. *)
C1_NoDanglingReferences ==
    \A i \in AgentIds :
       (agents[i].inputs >= 1 /\ agents[i].outputs >= 1) => NoDangling(agents[i])

(* C1 witness: a reproduce that deleted a hidden node of a parent one of whose
   connections pointed at a hidden index the child no longer has. *)
C1_Witness ==
    /\ Reproduced
    /\ Parent.inputs >= 1 /\ Parent.outputs >= 1
    /\ Child.nodes < Parent.nodes
    /\ Len(Child.connection_list) = Len(Parent.connection_list)
    /\ \E k \in ConnIds(Parent) :
          LET c == Parent.connection_list[k]
          IN  \/ c.start_layer = 1 /\ c.start_idx >= Child.nodes
              \/ c.end_layer = 1 /\ c.end_idx >= Child.nodes

(* C2: the connection counter of every agent equals the length of its
   connection list and its hidden_count equals the length of its hidden value
   buffer, after every reproduce call and under any interleaving of reproduce
   and calculate calls. *)
C2_CountersInSync ==
    \A i \in AgentIds :
       /\ agents[i].connections = Len(agents[i].connection_list)
       /\ agents[i].nodes = Len(agents[i].data_lists[2])

(* C2 witness: a child with a hidden node and a connection, returned by a
   reproduce on a parent whose buffers an earlier calculate has written. *)
C2_Witness ==
    /\ Reproduced
    /\ Child.nodes >= 1 /\ Child.connections >= 1
    /\ Child.connections # Parent.connections
    /\ Child.nodes # Parent.nodes
    /\ \E k \in 1..Len(Parent.data_lists[3]) : Parent.data_lists[3][k] # 0

----------------------------------------------------------------------------
(* The connection graph of an agent: nodes are <<layer, idx>> *)

Edge(c) == <<<<c.start_layer, c.start_idx>>, <<c.end_layer, c.end_idx>>>>

Edges(a) == {Edge(a.connection_list[k]) : k \in ConnIds(a)}

(* the edges that are not hidden-to-hidden *)
LayerCrossingEdges(a) == {e \in Edges(a) : ~(e[1][1] = 1 /\ e[2][1] = 1)}

RECURSIVE ReachableFrom(_, _, _)
ReachableFrom(E, S, n) ==
    IF n = 0 THEN S
    ELSE ReachableFrom(E, S \cup {e[2] : e \in {x \in E : x[1] \in S}}, n - 1)

HasCycle(E) == \E e \in E : e[1] \in ReachableFrom(E, {e[2]}, Cardinality(E))

(* C3 as claimed: no reachable agent's connections contain a directed cycle,
   a connection from a node to itself included. *)
C3_NoCycle == \A i \in AgentIds : ~HasCycle(Edges(agents[i]))

(* C3 amended: every connection goes from the input or hidden layer to the
   hidden or output layer, and the connections other than hidden-to-hidden ones
   form no directed cycle; a cycle can consist of hidden-to-hidden connections
   only. *)
C3_CyclesOnlyAmongHidden ==
    \A i \in AgentIds :
       /\ \A k \in ConnIds(agents[i]) :
             /\ agents[i].connection_list[k].start_layer \in {0, 1}
             /\ agents[i].connection_list[k].end_layer \in {1, 2}
       /\ ~HasCycle(LayerCrossingEdges(agents[i]))
       /\ \A e \in Edges(agents[i]) :
             e[1] \in ReachableFrom(Edges(agents[i]), {e[2]}, Cardinality(Edges(agents[i])))
                => (e[1][1] = 1 /\ e[2][1] = 1)

(* C3 witness: a child of reproduce whose two hidden nodes feed each other. *)
C3_Witness ==
    /\ Reproduced
    /\ {<<<<1, 0>>, <<1, 1>>>>, <<<<1, 1>>, <<1, 0>>>>} \subseteq Edges(Child)

(* C4 as claimed: a reproduce call never ends in an error, whatever the
   agent's input_count and output_count (0 included), the rates and the
   draws. *)
C4_ReproduceNeverFails == ~(last.op = "reproduce" /\ last.result = "panic")

(* C5 as claimed: a calculate call fails with a shape mismatch exactly when the
   input's length differs from input_count, and fails in no other way. *)
C5_FailsIffShapeMismatch ==
    last.op = "calculate" =>
       /\ last.result \in {"ok", "shape_mismatch"}
       /\ (last.result = "shape_mismatch") <=> (last.inlen # last.inputs)

(* C6: on every agent created with two activation functions and reached by any
   interleaving of reproduce and calculate, calculate with an input of length
   input_count completes without an out-of-bounds access. *)
C6_CalculateTotal ==
    \A i \in AgentIds : \A input \in InputVectors :
       (Len(agents[i].activation_funcs) = 2 /\ Len(input) = agents[i].inputs)
          => calculate(agents[i], input).result = "ok"

(* C6 witness: a completed calculate on an agent with two activation functions
   that has a connection starting at a hidden node. *)
C6_Witness ==
    /\ last.op = "calculate" /\ last.result = "ok"
    /\ Len(agents[last.agent].activation_funcs) = 2
    /\ \E k \in ConnIds(agents[last.agent]) :
          /\ agents[last.agent].connection_list[k].start_layer = 1
          /\ agents[last.agent].connection_list[k].end_layer = 2
    /\ \E k \in ConnIds(agents[last.agent]) :
          agents[last.agent].connection_list[k].end_layer = 1

(* C7: a second calculate with the same input on an agent not mutated since
   the first returns the same output vector and leaves the hidden and output
   buffers as the first call left them. *)
C7_CalculateIdempotent ==
    \A i \in AgentIds : \A input \in InputVectors :
       LET first == calculate(agents[i], input)
       IN  first.result = "ok" =>
              /\ calculate(first.ag, input).result = "ok"
              /\ calculate(first.ag, input).out = first.out
              /\ calculate(first.ag, input).ag.data_lists = first.ag.data_lists

(* C7 witness: an agent just evaluated, with a hidden-to-hidden connection,
   whose hidden buffer holds a non-zero accumulation. *)
C7_Witness ==
    /\ last.op = "calculate" /\ last.result = "ok"
    /\ \E k \in ConnIds(agents[last.agent]) :
          /\ agents[last.agent].connection_list[k].start_layer = 1
          /\ agents[last.agent].connection_list[k].end_layer = 1
    /\ \E k \in 1..Len(agents[last.agent].data_lists[2]) :
          agents[last.agent].data_lists[2][k] # 0

(* C8 as claimed: create_agents fails whenever inputs or outputs is negative,
   whatever the agent count. *)
C8_NegativeCountsFail ==
    (last.op = "create" /\ (last.inputs < 0 \/ last.outputs < 0))
       => last.result = "panic"

(* C9: a reproduce call that returns a child leaves every agent that existed
   before the call, the parent included, as it was: counts, connection list
   and value buffers. *)
C9_ParentUnchanged ==
    [][(last'.op = "reproduce" /\ last'.result = "ok")
          => \A j \in AgentIds : agents'[j] = agents[j]]_vars

(* C9 witness: a reproduce whose child differs from its parent in hidden_count
   and in its connection list, the parent's buffers being non-zero. *)
C9_Witness ==
    /\ Reproduced
    /\ Child.nodes # Parent.nodes
    /\ Child.connection_list # Parent.connection_list
    /\ \E k \in 1..Len(Parent.data_lists[1]) : Parent.data_lists[1][k] # 0
    /\ Child.data_lists # Parent.data_lists

(* C10: a calculate or reproduce call on one agent leaves every other agent's
   counts, connection list and value buffers unchanged. *)
C10_NoSharedState ==
    [][(last'.op \in {"calculate", "reproduce"} /\ last'.result = "ok")
          => \A j \in AgentIds : j # last'.agent => agents'[j] = agents[j]]_vars

(* C10 witness: three agents, the third the child of a reproduce on the
   second that changed its connections, the first and the second holding
   different non-zero outputs of their own calculate calls. *)
C10_Witness ==
    /\ Len(agents) = 3
    /\ Reproduced /\ last.agent = 2
    /\ Child.connection_list # Parent.connection_list
    /\ agents[1].data_lists[3] # agents[2].data_lists[3]
    /\ \E k \in 1..Len(agents[1].data_lists[3]) : agents[1].data_lists[3][k] # 0
    /\ \E k \in 1..Len(agents[2].data_lists[3]) : agents[2].data_lists[3][k] # 0

----------------------------------------------------------------------------
(* What calculate keeps of an agent *)

(* the connections of a list that go from layer sl to layer el, in list order *)
RECURSIVE WithKey(_, _, _)
WithKey(list, sl, el) ==
    IF list = <<>> THEN <<>>
    ELSE IF list[1].start_layer = sl /\ list[1].end_layer = el
         THEN <<list[1]>> \o WithKey(Tail(list), sl, el)
         ELSE WithKey(Tail(list), sl, el)

Layers == 0..2

(* the list is ordered by (start_layer, end_layer) *)
OrderedByLayers(list) ==
    \A j, k \in 1..Len(list) : j < k => ConnLeq(list[j], list[k])

(* the step just taken was a calculate call that returned *)
Calculated(i) == last'.op = "calculate" /\ last'.result = "ok" /\ last'.agent = i

(* C11 as claimed: a calculate call leaves the agent's hidden_count, its
   connection counter and its sequence of connections, the same entries at the
   same positions, as they were before the call. *)
C11_ConnectionsKeepPositions ==
    [][\A i \in AgentIds :
          Calculated(i) =>
             /\ agents'[i].nodes = agents[i].nodes
             /\ agents'[i].connections = agents[i].connections
             /\ agents'[i].connection_list = agents[i].connection_list]_vars

(* C11 amended: a calculate call leaves the agent's counts, activation
   functions and the entries of its connection list as they were, and leaves
   the list stably sorted by (start_layer, end_layer): the connections of each
   pair of layers keep their order among themselves, but a connection's
   position in the list can change. *)
C11_ConnectionsStablySorted ==
    [][\A i \in AgentIds :
          Calculated(i) =>
             /\ agents'[i].nodes = agents[i].nodes
             /\ agents'[i].connections = agents[i].connections
             /\ agents'[i].inputs = agents[i].inputs
             /\ agents'[i].outputs = agents[i].outputs
             /\ agents'[i].activation_funcs = agents[i].activation_funcs
             /\ Len(agents'[i].connection_list) = Len(agents[i].connection_list)
             /\ OrderedByLayers(agents'[i].connection_list)
             /\ \A sl, el \in Layers :
                   WithKey(agents'[i].connection_list, sl, el)
                      = WithKey(agents[i].connection_list, sl, el)]_vars

(* C11 witness: the first agent has just been evaluated and holds, in sorted
   order, the connections that its clone, the second agent, still holds in the
   order of their insertion, which is not sorted. *)
C11_Witness ==
    /\ Len(agents) = 2
    /\ last.op = "calculate" /\ last.result = "ok" /\ last.agent = 1
    /\ agents[2].connection_list # agents[1].connection_list
    /\ ~OrderedByLayers(agents[2].connection_list)
    /\ \A sl, el \in Layers :
          WithKey(agents[2].connection_list, sl, el)
             = WithKey(agents[1].connection_list, sl, el)

(* C12: for every agent and every input of length input_count, the vector a
   calculate call returns has exactly output_count entries. *)
C12_OutputLength ==
    \A i \in AgentIds : \A input \in InputVectors :
       LET r == calculate(agents[i], input)
       IN  r.result = "ok" =>
              /\ Len(r.out) = agents[i].outputs
              /\ Len(r.ag.data_lists[3]) = agents[i].outputs

(* C12 witness: a calculate call has returned on an agent with an output and a
   hidden node whose connections carried a non-zero value to the output. *)
C12_Witness ==
    /\ last.op = "calculate" /\ last.result = "ok"
    /\ agents[last.agent].outputs = 1
    /\ agents[last.agent].nodes >= 1
    /\ Len(agents[last.agent].data_lists[3]) = 1
    /\ agents[last.agent].data_lists[3][1] # 0

----------------------------------------------------------------------------
(* The repair of the connections when a hidden node is deleted *)

(* an endpoint (layer, i) of the parent and the endpoint (layer2, i2) that the
   deletion of hidden node idx left in its place; nodes is the hidden_count
   after the deletion and fallback, size the layer and the size of the layer
   the endpoint moves to when no hidden node remains *)
EndpointRepaired(layer, i, layer2, i2, idx, nodes, fallback, size) ==
    IF layer = 1 /\ i > idx THEN layer2 = 1 /\ i2 = i - 1
    ELSE IF layer = 1 /\ i = idx
         THEN IF nodes > 0
              THEN layer2 = 1 /\ i2 \in 0..(nodes - 1)
              ELSE layer2 = fallback /\ i2 \in 0..(size - 1)
         ELSE layer2 = layer /\ i2 = i

(* C14: when reproduce deletes hidden node idx and returns, every hidden
   endpoint above idx is one lower, every hidden endpoint below idx and every
   input or output endpoint is unchanged, and every endpoint equal to idx is a
   valid hidden index if a hidden node remains, otherwise a valid input slot
   (a start) or a valid output slot (an end); no connection is added, removed
   or reweighted by the repair, and when the last hidden node goes no
   connection references the hidden layer. *)
C14_DeleteNodeRepair ==
    \A i \in AgentIds : \A idx \in GenRange(agents[i].nodes) :
       \A o \in DeleteNodeAt(agents[i], idx) :
          o.ok =>
             /\ o.ag.nodes = agents[i].nodes - 1
             /\ Len(o.ag.data_lists[2]) = Len(agents[i].data_lists[2]) - 1
             /\ Len(o.ag.connection_list) = Len(agents[i].connection_list)
             /\ \A k \in ConnIds(agents[i]) :
                   LET c  == agents[i].connection_list[k]
                       c2 == o.ag.connection_list[k]
                   IN  /\ c2.weight = c.weight
                       /\ EndpointRepaired(c.start_layer, c.start_idx,
                                           c2.start_layer, c2.start_idx,
                                           idx, o.ag.nodes, 0, o.ag.inputs)
                       /\ EndpointRepaired(c.end_layer, c.end_idx,
                                           c2.end_layer, c2.end_idx,
                                           idx, o.ag.nodes, 2, o.ag.outputs)
             /\ o.ag.nodes = 0 =>
                   \A k \in ConnIds(o.ag) :
                      /\ o.ag.connection_list[k].start_layer # 1
                      /\ o.ag.connection_list[k].end_layer # 1

(* C14 witness: a reproduce took a parent with two hidden nodes and a
   connection from hidden node 1 to hidden node 0 to a child with one hidden
   node in which that connection, at the same position, goes from hidden node
   0 to hidden node 0: the start was compacted and the end kept, or the start
   kept and the end rewired. *)
C14_Witness ==
    /\ Reproduced
    /\ Parent.nodes = 2 /\ Child.nodes = 1
    /\ Len(Child.connection_list) = Len(Parent.connection_list)
    /\ \E k \in ConnIds(Parent) :
          /\ Edge(Parent.connection_list[k]) = <<<<1, 1>>, <<1, 0>>>>
          /\ Edge(Child.connection_list[k]) = <<<<1, 0>>, <<1, 0>>>>
          /\ Child.connection_list[k].weight = Parent.connection_list[k].weight

(* C16: every connection of every reachable agent starts at the input or the
   hidden layer and ends at the hidden or the output layer; no edit of
   reproduce leaves a connection that starts at an output or ends at an
   input. *)
C16_LayersInRange ==
    \A i \in AgentIds : \A k \in ConnIds(agents[i]) :
       LET c == agents[i].connection_list[k]
       IN  /\ c.start_layer \in {0, 1} /\ c.start_layer # 2
           /\ c.end_layer \in {1, 2} /\ c.end_layer # 0

(* C16 witness: a reproduce deleted the parent's only hidden node, and the
   parent's connections, one of which started and one of which ended at that
   node, all go from the input layer to the output layer in the child. *)
C16_Witness ==
    /\ Reproduced
    /\ Parent.nodes = 1 /\ Child.nodes = 0
    /\ Len(Child.connection_list) = Len(Parent.connection_list)
    /\ \E k \in ConnIds(Parent) : Parent.connection_list[k].start_layer = 1
    /\ \E k \in ConnIds(Parent) : Parent.connection_list[k].end_layer = 1
    /\ \A k \in ConnIds(Child) :
          /\ Child.connection_list[k].start_layer = 0
          /\ Child.connection_list[k].end_layer = 2

----------------------------------------------------------------------------
(* Rates that differ from gate to gate *)

(* the rates that are 0 for the gates in zero and 1/2 for the others *)
RatesZeroFor(zero) == [g \in RateNames |-> IF g \in zero THEN 0 ELSE 1]

ZeroRates == RatesZeroFor(RateNames)

NodeRatesZero == RatesZeroFor({"new_node_chance", "delete_node_chance"})

ConnectionRatesZero == RatesZeroFor({"new_connection_chance", "delete_connection_chance"})

WeightRatesZero ==
    RatesZeroFor({"new_connection_chance", "delete_connection_chance",
                  "change_weight_chance"})

(* the agents a reproduce call can be made on: those of a population with
   room for a child; the selection step takes every agent into one *)
ParentIds == IF Len(agents) < cap.agents THEN AgentIds ELSE {}

(* C18: a gate whose rate is 0 never fires.  With all six rates 0 reproduce
   returns, for every draw, a child equal to the parent in hidden_count,
   connection counter and connection list; with new_node_chance and
   delete_node_chance 0 the child's hidden_count is the parent's; with
   new_connection_chance and delete_connection_chance 0 the child has as many
   connections as the parent, and with change_weight_chance 0 as well each of
   them has the weight it had. *)
C18_ZeroRateNeverFires ==
    \A i \in ParentIds :
       /\ reproduce(agents[i], ZeroRates) # {}
       /\ \A o \in reproduce(agents[i], ZeroRates) :
             /\ o.ok
             /\ o.ag.nodes = agents[i].nodes
             /\ o.ag.connections = agents[i].connections
             /\ o.ag.connection_list = agents[i].connection_list
       /\ \A o \in reproduce(agents[i], NodeRatesZero) :
             o.ok => /\ o.ag.nodes = agents[i].nodes
                     /\ o.ag.data_lists[2] = agents[i].data_lists[2]
       /\ \A o \in reproduce(agents[i], ConnectionRatesZero) :
             o.ok => /\ o.ag.connections = agents[i].connections
                     /\ Len(o.ag.connection_list) = Len(agents[i].connection_list)
       /\ \A o \in reproduce(agents[i], WeightRatesZero) :
             o.ok => /\ Len(o.ag.connection_list) = Len(agents[i].connection_list)
                     /\ \A k \in ConnIds(agents[i]) :
                           o.ag.connection_list[k].weight
                              = agents[i].connection_list[k].weight

(* C18 witness: a reproduce has returned a child equal to a parent that has
   two hidden nodes and two connections, as the call with all rates 0 does. *)
C18_Witness ==
    /\ Reproduced
    /\ Parent.nodes = 2 /\ Parent.connections = 2
    /\ Child = Parent
    /\ Ok(Child) \in reproduce(Parent, ZeroRates)

----------------------------------------------------------------------------
(* The gates of one reproduce call *)

(* the rates under which exactly the gates in fired pass their draw: a draw of
   gen_range(0.0..1.0) is below 1.0 and is not below 0.0 *)
FireExactly(fired) == [g \in RateNames |-> IF g \in fired THEN 2 ELSE 0]

Count(b) == IF b THEN 1 ELSE 0

(* hidden_count and connection counter after the two node edits and the two
   connection edits, in the order delete, add, of a call on agent a in which
   the gates in fired pass; an addition stops at the scope's cap *)
NodesAfterDelete(a, fired) ==
    a.nodes - Count("delete_node_chance" \in fired /\ a.nodes > 0)

NodesAfter(a, fired) ==
    NodesAfterDelete(a, fired)
       + Count("new_node_chance" \in fired /\ NodesAfterDelete(a, fired) < cap.nodes)

ConnectionsAfterDelete(a, fired) ==
    a.connections - Count("delete_connection_chance" \in fired /\ a.connections > 0)

ConnectionAdded(a, fired) ==
    /\ "new_connection_chance" \in fired
    /\ ConnectionsAfterDelete(a, fired) < cap.connections

ConnectionsAfter(a, fired) ==
    ConnectionsAfterDelete(a, fired) + Count(ConnectionAdded(a, fired))

(* C17: in one reproduce call the six gates are drawn independently and the
   edits are applied in the order delete node, add node, delete connection,
   add connection, rewire, reweight.  Every subset of the six gates can pass
   in one call, and the call returns when the agent has an input and an
   output; the child's counts are those of the deletions applied before the
   additions; the connection deleted is one of the parent's, never the one
   added in the call; and a connection added in the call can start or end at
   a hidden node added in the same call. *)
C17_EditsInOrder ==
    \A i \in ParentIds : \A fired \in SUBSET RateNames :
       LET a    == agents[i]
           outs == reproduce(a, FireExactly(fired))
       IN  /\ outs # {}
           /\ (a.inputs >= 1 /\ a.outputs >= 1) => \E o \in outs : o.ok
           /\ \A o \in outs :
                 o.ok =>
                    /\ o.ag.nodes = NodesAfter(a, fired)
                    /\ o.ag.connections = ConnectionsAfter(a, fired)
                    /\ Len(o.ag.connection_list) = ConnectionsAfter(a, fired)
                    /\ (fired \subseteq {"new_node_chance", "delete_connection_chance",
                                         "new_connection_chance"}) =>
                          IF "delete_connection_chance" \in fired /\ a.connections > 0
                          THEN \E idx \in GenRange(a.connections) :
                                  SubSeq(o.ag.connection_list, 1, a.connections - 1)
                                     = RemoveAt(a.connection_list, idx)
                          ELSE SubSeq(o.ag.connection_list, 1, a.connections)
                                  = a.connection_list
           /\ (/\ a.inputs >= 1 /\ a.outputs >= 1
               /\ NodesAfterDelete(a, fired) = 0 /\ NodesAfter(a, fired) = 1
               /\ ConnectionAdded(a, fired)) =>
                 \E o \in outs :
                    /\ o.ok
                    /\ o.ag.connection_list[Len(o.ag.connection_list)].start_layer = 1
                    /\ o.ag.connection_list[Len(o.ag.connection_list)].end_layer = 1

(* C17 witness: a reproduce has returned, from a parent with a hidden node and
   a connection, a child of the call in which all six gates passed; the child
   differs from the parent in its connection list. *)
C17_Witness ==
    /\ Reproduced
    /\ Parent.nodes >= 1 /\ Parent.connections >= 1
    /\ Parent.inputs >= 1 /\ Parent.outputs >= 1
    /\ Ok(Child) \in reproduce(Parent, FireExactly(RateNames))
    /\ Child.connection_list # Parent.connection_list

----------------------------------------------------------------------------
(* calculate as one accumulation sweep *)

(* the list grouped by (start_layer, end_layer) in ascending order of the
   pairs, each group in list order *)
GroupedByLayers(list) ==
    WithKey(list, 0, 0) \o WithKey(list, 0, 1) \o WithKey(list, 0, 2) \o
    WithKey(list, 1, 0) \o WithKey(list, 1, 1) \o WithKey(list, 1, 2) \o
    WithKey(list, 2, 0) \o WithKey(list, 2, 1) \o WithKey(list, 2, 2)

(* dest[end_idx] += activation(start_layer)(source[start_idx]) * weight *)
SweepStep(d, acts, c) ==
    LET source == d[c.start_layer + 1][c.start_idx + 1]
        value  == IF acts[c.start_layer + 1] = "TANH" THEN TANH(source) ELSE source
    IN  [d EXCEPT ![c.end_layer + 1][c.end_idx + 1] = FAdd(@, FMul(value, c.weight))]

(* the buffers after the first n connections of the list, in order *)
RECURSIVE SweepOver(_, _, _, _)
SweepOver(d, acts, list, n) ==
    IF n = 0 THEN d
    ELSE SweepStep(SweepOver(d, acts, list, n - 1), acts, list[n])

SingleSweep(a, input) ==
    SweepOver(<<input, Zeros(a.nodes), Zeros(a.outputs)>>, a.activation_funcs,
              GroupedByLayers(a.connection_list), Len(a.connection_list))

(* C15: a calculate call that returns has made a single accumulation sweep:
   from the input and zeroed hidden and output buffers, over the connections
   stably sorted by (start_layer, end_layer), each connection adding
   activation(start_layer)(source value as it then stands) * weight to its
   destination; the vector returned is the output buffer of that sweep.  One
   input-to-output connection of weight 2 with the identity on the input
   layer, one output and input [3] gives [6]. *)
C15_SingleSweep ==
    \A i \in AgentIds : \A input \in InputVectors :
       LET r == calculate(agents[i], input)
       IN  r.result = "ok" =>
              /\ r.ag.data_lists = SingleSweep(agents[i], input)
              /\ r.out = SingleSweep(agents[i], input)[3]
              /\ (/\ agents[i].connection_list = <<Connection(0, 2, 0, 0, 2)>>
                  /\ agents[i].activation_funcs[1] = "ID"
                  /\ agents[i].outputs = 1
                  /\ input = <<3>>) => r.out = <<6>>

(* C15 witness: a calculate call with input [3] has returned on an agent whose
   connections are, in the order of the list before the call, a hidden-to-
   output one, a hidden-to-hidden one and an input-to-hidden one, all of
   weight 2: its hidden node holds 3 * 2 + TANH(6) * 2 = 8 and its output
   TANH(8) * 2 = 2, the values of the sweep in sorted order. *)
C15_Witness ==
    /\ last.op = "calculate" /\ last.result = "ok"
    /\ Len(agents) = 2 /\ last.agent = 1
    /\ agents[2].connection_list =
          <<Connection(1, 2, 0, 0, 2), Connection(1, 1, 0, 0, 2), Connection(0, 1, 0, 0, 2)>>
    /\ agents[1].connection_list =
          <<Connection(0, 1, 0, 0, 2), Connection(1, 1, 0, 0, 2), Connection(1, 2, 0, 0, 2)>>
    /\ agents[1].data_lists = <<<<3>>, <<8>>, <<2>>>>

----------------------------------------------------------------------------
(* calculate as a layered forward pass *)

NoHiddenToHidden(a) ==
    \A k \in ConnIds(a) :
       ~(a.connection_list[k].start_layer = 1 /\ a.connection_list[k].end_layer = 1)

(* one layer of the pass: the first n of the connections conns, all from one
   layer with values source and activation f to one layer, added to dest *)
RECURSIVE LayerPass(_, _, _, _, _)
LayerPass(dest, conns, source, f, n) ==
    IF n = 0 THEN dest
    ELSE [LayerPass(dest, conns, source, f, n - 1) EXCEPT
             ![conns[n].end_idx + 1] =
                FAdd(@, FMul(ApplyAct(f, source[conns[n].start_idx + 1]),
                             conns[n].weight))]

(* the hidden layer computed from the inputs, then the output layer from the
   inputs and from the finished hidden layer *)
LayeredPass(a, input) ==
    LET InToHidden  == WithKey(a.connection_list, 0, 1)
        InToOut     == WithKey(a.connection_list, 0, 2)
        HiddenToOut == WithKey(a.connection_list, 1, 2)
        hidden == LayerPass(Zeros(a.nodes), InToHidden, input,
                            a.activation_funcs[1], Len(InToHidden))
        direct == LayerPass(Zeros(a.outputs), InToOut, input,
                            a.activation_funcs[1], Len(InToOut))
        out    == LayerPass(direct, HiddenToOut, hidden,
                            a.activation_funcs[2], Len(HiddenToOut))
    IN  <<input, hidden, out>>

(* the agent with its connections inserted in another order *)
Reordered(a) ==
    {[a EXCEPT !.connection_list = [k \in ConnIds(a) |-> a.connection_list[p[k]]]] :
        p \in Permutations(ConnIds(a))}

(* the connections of each pair of layers are in the same order in both *)
SameOrderWithinLayers(a, b) ==
    \A sl, el \in Layers :
       WithKey(a.connection_list, sl, el) = WithKey(b.connection_list, sl, el)

(* C19 as claimed: for every agent with no hidden-to-hidden connection
   calculate equals a layered forward pass, and its output does not depend on
   the order in which the connections were inserted. *)
C19_InsertionOrderIrrelevant ==
    \A i \in AgentIds : \A input \in InputVectors :
       LET r == calculate(agents[i], input)
       IN  (NoHiddenToHidden(agents[i]) /\ r.result = "ok") =>
              /\ r.ag.data_lists = LayeredPass(agents[i], input)
              /\ \A b \in Reordered(agents[i]) : calculate(b, input).out = r.out

(* C19 amended: for every agent with no hidden-to-hidden connection calculate
   equals a layered forward pass in which every node adds its contributions in
   the order of insertion: the hidden values are complete before a hidden-to-
   output connection reads them, and the output is the same for every order
   of insertion that keeps the order among the connections of each pair of
   layers.  Among those the order decides in which order the rounded f32
   additions into one node are made, and the output can depend on it. *)
C19_LayeredPass ==
    \A i \in AgentIds : \A input \in InputVectors :
       LET r == calculate(agents[i], input)
       IN  (NoHiddenToHidden(agents[i]) /\ r.result = "ok") =>
              /\ r.ag.data_lists = LayeredPass(agents[i], input)
              /\ r.out = LayeredPass(agents[i], input)[3]
              /\ \A b \in Reordered(agents[i]) :
                    SameOrderWithinLayers(b, agents[i]) => calculate(b, input).out = r.out

(* C19 witness: a calculate call has returned on an agent whose list holds an
   input-to-hidden, an input-to-output and a hidden-to-output connection and
   no other; its hidden node and its output hold non-zero sums. *)
C19_Witness ==
    /\ last.op = "calculate" /\ last.result = "ok"
    /\ NoHiddenToHidden(agents[last.agent])
    /\ Len(WithKey(agents[last.agent].connection_list, 0, 1)) = 1
    /\ Len(WithKey(agents[last.agent].connection_list, 0, 2)) = 1
    /\ Len(WithKey(agents[last.agent].connection_list, 1, 2)) = 1
    /\ agents[last.agent].data_lists[2][1] # 0
    /\ agents[last.agent].data_lists[3][1] # 0

====
